---- MODULE Spec2Model ----
(***************************************************************************)
(* Token lifecycle of backend/app/user_tokens: UserTokenAdapter over the   *)
(* user_tokens table.  Every request runs in its own AsyncSession          *)
(* (db/database.py get_async_db); a request is suspended at every outbound *)
(* HTTP call and at every database round trip, so each await is one step.  *)
(* Times are in seconds, tokens are the numbers the provider minted.       *)
(***************************************************************************)
EXTENDS Integers, Sequences, FiniteSets, TLC

VARIABLES store, proc, now, minted, nextId, env

vars == <<store, proc, now, minted, nextId, env>>

----------------------------------------------------------------------------
(* Bounds of the model *)

MaxMint == 2
MaxTicks == 2
ConcMaxMint == 2
ConcMaxTicks == 1
RaceMaxMint == 3
RaceMaxTicks == 1
RenewMaxMint == 3
RenewMaxTicks == 1
FilterMaxMint == 2
FilterMaxTicks == 1
FrameMaxMint == 3
FrameMaxTicks == 1

(* Domains *)

Procs == {"r1", "r2"}
Users == {1, 2}
Platforms == {"youtube", "facebook"}
ExtIds == {"a", "b"}
None == "None"
Null == 0
Absent == -1
TickSteps == {3600}

(* Program constants *)

SecondsPerDay == 86400
GraceDays == 10
DefaultYoutubeExpiresIn == 3600
DefaultFacebookExpiresIn == 60 * 24 * 60 * 60

YoutubeExpiresIn == {3600}
FacebookExpiresIn == {432000, 907200, 1728000, Absent}

(* What the requests and the providers may do in a run: one request at a time
   with every input, or two overlapping requests with fewer inputs *)
SeqEnv ==
  [procs |-> {"r1"}, users |-> Users, exts |-> ExtIds, faults |-> TRUE,
   filters |-> (Platforms \cup {None}) \X (ExtIds \cup {None}),
   fbExpiresIn |-> FacebookExpiresIn, maxMint |-> MaxMint, maxTicks |-> MaxTicks]

ConcEnv ==
  [procs |-> Procs, users |-> {1}, exts |-> {"a"}, faults |-> FALSE,
   filters |-> {<<None, None>>},
   fbExpiresIn |-> {432000}, maxMint |-> ConcMaxMint, maxTicks |-> ConcMaxTicks]

(* two overlapping requests, long enough for a record and two renewals of it *)
RaceEnv ==
  [procs |-> Procs, users |-> {1}, exts |-> {"a"}, faults |-> FALSE,
   filters |-> {<<None, None>>},
   fbExpiresIn |-> {432000}, maxMint |-> RaceMaxMint, maxTicks |-> RaceMaxTicks]

(* one request at a time for one user, long enough for two records and a renewal *)
RenewEnv ==
  [procs |-> {"r1"}, users |-> {1}, exts |-> ExtIds, faults |-> TRUE,
   filters |-> {<<None, None>>},
   fbExpiresIn |-> {432000}, maxMint |-> RenewMaxMint, maxTicks |-> RenewMaxTicks]

(* one request at a time, every user and filter, providers and store answering *)
FilterEnv ==
  [procs |-> {"r1"}, users |-> Users, exts |-> ExtIds, faults |-> FALSE,
   filters |-> (Platforms \cup {None}) \X (ExtIds \cup {None}),
   fbExpiresIn |-> {1728000}, maxMint |-> FilterMaxMint, maxTicks |-> FilterMaxTicks]

(* two overlapping requests of two users *)
FrameEnv ==
  [procs |-> Procs, users |-> Users, exts |-> {"a"}, faults |-> FALSE,
   filters |-> {<<None, None>>},
   fbExpiresIn |-> {432000}, maxMint |-> FrameMaxMint, maxTicks |-> FrameMaxTicks]

----------------------------------------------------------------------------
(* Rows of user_tokens and the values a request holds *)

NoRow ==
  [id |-> 0, user |-> 0, platform |-> None, ext |-> None,
   at |-> 0, rt |-> Null, exp |-> 0, created |-> 0]

NoResult ==
  [status |-> "none", exc |-> None, code |-> 0, detail |-> None,
   origin |-> None, value |-> <<>>]

NoResp == [kind |-> None, at |-> 0, rt |-> Null, ein |-> Absent, ext |-> None]

IdleProc ==
  [pc |-> "idle", op |-> None, user |-> 0, platform |-> None, ext |-> None,
   tokens |-> <<>>, idx |-> 0, refreshed |-> <<>>,
   ut |-> NoRow, obj |-> NoRow, orig |-> NoRow, isNew |-> FALSE,
   short |-> 0, xtoken |-> 0, ein |-> Absent, resp |-> NoResp,
   calls |-> <<>>, tnow |-> 0, renewed |-> {}, deleted |-> 0,
   snap |-> {}, result |-> NoResult, seen |-> NoResult]

HTTPException(code, detail, origin) ==
  [status |-> "error", exc |-> "HTTPException", code |-> code, detail |-> detail,
   origin |-> origin, value |-> <<>>]

Raised(exc) ==
  [status |-> "error", exc |-> exc, code |-> 0, detail |-> exc,
   origin |-> exc, value |-> <<>>]

Returned(value) ==
  [status |-> "ok", exc |-> None, code |-> 200, detail |-> None,
   origin |-> None, value |-> value]

(* a select without ORDER BY returns the rows in any order *)
Orderings(S) ==
  {f \in [1..Cardinality(S) -> S] : \A i, j \in 1..Cardinality(S) : i # j => f[i] # f[j]}

----------------------------------------------------------------------------
InitStore ==
  /\ store = {}
  /\ proc = [p \in Procs |-> IdleProc]
  /\ now = 0
  /\ minted = 0
  /\ nextId = 1

Init == InitStore /\ env = SeqEnv

InitConc == InitStore /\ env = ConcEnv

InitRenew == InitStore /\ env = RenewEnv

InitRace == InitStore /\ env = RaceEnv

InitFilter == InitStore /\ env = FilterEnv

InitFrame == InitStore /\ env = FrameEnv

Tick ==
  /\ \E d \in TickSteps :
       /\ now + d <= env.maxTicks * 3600
       /\ now' = now + d
  /\ UNCHANGED <<store, proc, minted, nextId, env>>

----------------------------------------------------------------------------
(* Exception handlers, innermost first.  origin keeps what was first raised *)

CreateUserTokenExcept(e) ==
  IF e.exc = "IntegrityError"
  THEN HTTPException(500, "You already have a token for this platform", e.origin)
  ELSE HTTPException(500, "Failed to create user token", e.origin)

UpgradeExcept(e) ==
  HTTPException(500, "Failed to upgrade to long-lived Facebook token", e.origin)

RequestFacebookExcept(e) ==
  IF e.exc = "HTTPException" THEN e
  ELSE HTTPException(500, "Failed to request Facebook tokens", e.origin)

RequestYoutubeExcept(e) == e

RefreshFacebookExcept(e) == e

RefreshYoutubeExcept(e) ==
  HTTPException(400, "Failed to refresh YouTube token", e.origin)

GetTokensExcept_Swallow(e) == Returned(<<>>)

GetTokensExcept(e) ==
  HTTPException(400, "Failed to get tokens", e.origin)

(* where an exception leaving _upgrade_to_long_lived goes *)
LeaveUpgrade(pr, e) ==
  IF pr.op = "ingest" THEN RequestFacebookExcept(e)
  ELSE GetTokensExcept(RefreshFacebookExcept(e))

(* where an exception leaving create_user_token goes *)
LeaveCreateUserToken(pr, e) ==
  IF pr.ut.platform = "youtube" THEN RequestYoutubeExcept(e)
  ELSE LeaveUpgrade(pr, UpgradeExcept(e))

(* YoutubeAdapter.init_process and YoutubeService.init_process *)
YoutubeInitProcessExcept(e) ==
  IF e.exc = "HTTPException" THEN e
  ELSE HTTPException(500, "Failed to create project", e.origin)

(* FacebookAdapter.init_process: the handler of HTTPException reads e, which that
   handler never bound *)
FacebookInitProcessExcept(e) ==
  IF e.exc = "HTTPException" THEN Raised("UnboundLocalError")
  ELSE HTTPException(500, "Failed to create project", e.origin)

FacebookServiceExcept(e) ==
  IF e.exc = "HTTPException" THEN e
  ELSE HTTPException(500, "Failed to request facebook tokens", e.origin)

(* what the caller of the endpoint is given *)
Seen(pr, res) ==
  IF res.status = "ok" \/ pr.op # "ingest" THEN res
  ELSE IF pr.platform = "youtube" THEN YoutubeInitProcessExcept(res)
  ELSE [FacebookServiceExcept(FacebookInitProcessExcept(res)) EXCEPT !.origin = res.origin]

(* the request ends: what it returned or raised, and what it did, stay visible *)
Finish(pr, res) ==
  [pr EXCEPT !.pc = "done", !.result = res, !.seen = Seen(pr, res),
             !.tokens = <<>>, !.idx = 0, !.refreshed = <<>>,
             !.orig = NoRow, !.tnow = 0]

----------------------------------------------------------------------------
(* A request arrives at an idle worker *)

Begin(p, rec) == proc' = [proc EXCEPT ![p] = rec]

(* the store as the call found it, kept where calls do not overlap *)
Snapshot == IF Cardinality(env.procs) = 1 THEN store ELSE {}

StartYoutubeIngest(p) ==
  /\ p \in env.procs
  /\ proc[p].pc = "idle"
  /\ \E u \in env.users :
       Begin(p, [IdleProc EXCEPT !.pc = "yt_code_http", !.op = "ingest", !.snap = Snapshot,
                                 !.user = u, !.platform = "youtube",
                                 !.calls = <<[kind |-> "yt_code", id |-> 0]>>])
  /\ UNCHANGED <<store, now, minted, nextId, env>>

StartFacebookIngest(p) ==
  /\ p \in env.procs
  /\ proc[p].pc = "idle"
  /\ \E u \in env.users :
       Begin(p, [IdleProc EXCEPT !.pc = "fb_code_http", !.op = "ingest", !.snap = Snapshot,
                                 !.user = u, !.platform = "facebook",
                                 !.calls = <<[kind |-> "fb_code", id |-> 0]>>])
  /\ UNCHANGED <<store, now, minted, nextId, env>>

StartGet(p) ==
  /\ p \in env.procs
  /\ proc[p].pc = "idle"
  /\ \E u \in env.users, f \in env.filters :
       Begin(p, [IdleProc EXCEPT !.pc = "get_select", !.op = "get", !.snap = Snapshot,
                                 !.user = u, !.platform = f[1], !.ext = f[2]])
  /\ UNCHANGED <<store, now, minted, nextId, env>>

StartRevoke(p) ==
  /\ p \in env.procs
  /\ proc[p].pc = "idle"
  /\ \E u \in env.users :
       Begin(p, [IdleProc EXCEPT !.pc = "delete", !.op = "revoke", !.snap = Snapshot, !.user = u])
  /\ UNCHANGED <<store, now, minted, nextId, env>>

Return(p) ==
  /\ proc[p].pc = "done"
  /\ proc' = [proc EXCEPT ![p] = IdleProc]
  /\ UNCHANGED <<store, now, minted, nextId, env>>

----------------------------------------------------------------------------
(* request_youtube_tokens: the answer of the code exchange *)

Faults(kinds) == IF env.faults THEN kinds ELSE {}

YoutubeGrantResponses ==
  {[NoResp EXCEPT !.kind = "ok", !.ein = e, !.ext = x] :
       e \in YoutubeExpiresIn, x \in env.exts}
  \cup {[NoResp EXCEPT !.kind = k] :
       k \in Faults({"network_error", "no_access_token", "no_refresh_token", "bad_id_token"})}

EnterCreateUserToken_NoExpiry(pr, u, plat, x, at, rt, ein) ==
  [pr EXCEPT !.pc = "upsert_select",
             !.ut = [NoRow EXCEPT !.user = u, !.platform = plat, !.ext = x,
                                   !.at = at, !.rt = rt]]

(* create_user_token up to its first await: the expiry is computed on entry *)
EnterCreateUserToken(pr, u, plat, x, at, rt, ein) ==
  [pr EXCEPT !.pc = "upsert_select",
             !.ut = [NoRow EXCEPT !.user = u, !.platform = plat, !.ext = x,
                                   !.at = at, !.rt = rt, !.exp = now + ein]]

RequestYoutubeTokensResponse(p) ==
  /\ proc[p].pc = "yt_code_http"
  /\ \E r \in YoutubeGrantResponses :
       LET pr == proc[p]
           got == [pr EXCEPT !.resp = r]
       IN
       CASE r.kind = "network_error" ->
              /\ proc' = [proc EXCEPT ![p] = Finish(got, RequestYoutubeExcept(Raised("RequestError")))]
              /\ UNCHANGED minted
         [] r.kind = "no_access_token" ->
              /\ proc' = [proc EXCEPT ![p] = Finish(got, RequestYoutubeExcept(
                            HTTPException(400, "Failed to get access token", "Failed to get access token")))]
              /\ UNCHANGED minted
         [] r.kind = "bad_id_token" ->
              /\ proc' = [proc EXCEPT ![p] = Finish(got, RequestYoutubeExcept(Raised("ValueError")))]
              /\ UNCHANGED minted
         [] r.kind = "no_refresh_token" ->
              /\ proc' = [proc EXCEPT ![p] = Finish(got, RequestYoutubeExcept(Raised("KeyError")))]
              /\ UNCHANGED minted
         [] OTHER ->
              /\ minted < env.maxMint
              /\ minted' = minted + 1
              /\ proc' = [proc EXCEPT ![p] =
                   EnterCreateUserToken(pr, pr.user, "youtube", r.ext,
                                        minted + 1, minted + 1, r.ein)]
  /\ UNCHANGED <<store, now, nextId, env>>

----------------------------------------------------------------------------
(* request_facebook_tokens, _upgrade_to_long_lived, get_facebook_user_info *)

(* the short-lived token of the code exchange: never one of the long-lived tokens *)
ShortLived == -(minted + 1)

FacebookCodeResponses == {"ok"} \cup Faults({"no_access_token", "network_error"})

RequestFacebookTokensResponse(p) ==
  /\ proc[p].pc = "fb_code_http"
  /\ \E k \in FacebookCodeResponses :
       LET pr == proc[p] IN
       CASE k = "network_error" ->
              /\ proc' = [proc EXCEPT ![p] = Finish(pr, RequestFacebookExcept(Raised("RequestError")))]
              /\ UNCHANGED minted
         [] k = "no_access_token" ->
              /\ proc' = [proc EXCEPT ![p] = Finish(pr, RequestFacebookExcept(
                            HTTPException(400, "Failed to get short-lived Facebook token",
                                          "Failed to get short-lived Facebook token")))]
              /\ UNCHANGED minted
         [] OTHER ->
              /\ UNCHANGED minted
              /\ proc' = [proc EXCEPT ![p] =
                   [pr EXCEPT !.pc = "fb_upgrade_http", !.short = ShortLived,
                              !.calls = Append(@, [kind |-> "fb_upgrade", id |-> 0])]]
  /\ UNCHANGED <<store, now, nextId, env>>

FacebookUpgradeResponses ==
  {[NoResp EXCEPT !.kind = "ok", !.ein = e] : e \in env.fbExpiresIn}
  \cup {[NoResp EXCEPT !.kind = k] : k \in Faults({"network_error", "no_access_token"})}

UpgradeToLongLivedResponse(p) ==
  /\ proc[p].pc = "fb_upgrade_http"
  /\ \E r \in FacebookUpgradeResponses :
       LET pr == proc[p] IN
       CASE r.kind = "network_error" ->
              /\ proc' = [proc EXCEPT ![p] =
                   Finish(pr, LeaveUpgrade(pr, UpgradeExcept(Raised("RequestError"))))]
              /\ UNCHANGED minted
         [] r.kind = "no_access_token" ->
              /\ proc' = [proc EXCEPT ![p] =
                   Finish(pr, LeaveUpgrade(pr, UpgradeExcept(
                     HTTPException(400, "Failed to get long-lived Facebook token",
                                   "Failed to get long-lived Facebook token"))))]
              /\ UNCHANGED minted
         [] OTHER ->
              /\ minted < env.maxMint
              /\ minted' = minted + 1
              /\ proc' = [proc EXCEPT ![p] =
                   [pr EXCEPT !.pc = "fb_whoami_http", !.xtoken = minted + 1,
                              !.ein = IF r.ein = Absent THEN DefaultFacebookExpiresIn ELSE r.ein,
                              !.calls = Append(@, [kind |-> "fb_whoami", id |-> 0])]]
  /\ UNCHANGED <<store, now, nextId, env>>

StoredFacebookToken_Short(pr) == pr.short

(* lines 331-337: the token handed to create_user_token is the upgrade exchange's *)
StoredFacebookToken(pr) == pr.xtoken

FacebookUserInfoResponses ==
  {[NoResp EXCEPT !.kind = "ok", !.ext = x] : x \in env.exts}
  \cup {[NoResp EXCEPT !.kind = k] : k \in Faults({"network_error", "non_200"})}

GetFacebookUserInfoResponse(p) ==
  /\ proc[p].pc = "fb_whoami_http"
  /\ \E r \in FacebookUserInfoResponses :
       LET pr == proc[p] IN
       proc' = [proc EXCEPT ![p] =
         CASE r.kind = "network_error" ->
                Finish(pr, LeaveUpgrade(pr, UpgradeExcept(
                  HTTPException(500, "Failed to fetch Meta user info", "RequestError"))))
           [] r.kind = "non_200" ->
                Finish(pr, LeaveUpgrade(pr, UpgradeExcept(
                  HTTPException(401, "upstream body", "upstream body"))))
           [] OTHER ->
                EnterCreateUserToken(pr, pr.user, "facebook", r.ext,
                                     StoredFacebookToken(pr), Null, pr.ein)]
  /\ UNCHANGED <<store, now, minted, nextId, env>>

----------------------------------------------------------------------------
(* create_user_token: select by the triple, then insert or update, commit *)

StorageOutcomes == {"ok"} \cup Faults({"unavailable"})

SameTriple_NoExternalId(r, ut) ==
  /\ r.user = ut.user
  /\ r.platform = ut.platform

SameTriple(r, ut) ==
  /\ r.user = ut.user
  /\ r.ext = ut.ext
  /\ r.platform = ut.platform

UniqueViolation_NoConstraint(S, row) == FALSE

(* uq_user_platform_external *)
UniqueViolation(S, row) ==
  \E r \in S : r.user = row.user /\ r.platform = row.platform /\ r.ext = row.ext

(* the session returns the object it already holds for a primary key *)
SessionObject(pr, row) ==
  IF \E i \in 1..Len(pr.tokens) : pr.tokens[i].id = row.id
  THEN pr.tokens[CHOOSE i \in 1..Len(pr.tokens) : pr.tokens[i].id = row.id]
  ELSE row

(* the unit of work writes the attributes whose value differs from the loaded one *)
ChangedColumns(orig, obj) ==
  {c \in {"at", "rt", "exp"} : obj[c] # orig[c]}

ApplyUpdate_Touch(row, obj, cols) ==
  [row EXCEPT !.at = IF "at" \in cols THEN obj.at ELSE @,
              !.rt = IF "rt" \in cols THEN obj.rt ELSE @,
              !.exp = IF "exp" \in cols THEN obj.exp ELSE @,
              !.created = now]

ApplyUpdate(row, obj, cols) ==
  [row EXCEPT !.at = IF "at" \in cols THEN obj.at ELSE @,
              !.rt = IF "rt" \in cols THEN obj.rt ELSE @,
              !.exp = IF "exp" \in cols THEN obj.exp ELSE @]

UpdateTarget_WholePlatform(S, obj) == {r \in S : r.platform = obj.platform}

(* the UPDATE of a modified object addresses the row of its primary key *)
UpdateTarget(S, obj) == {r \in S : r.id = obj.id}

(* flush and commit of one modified object: the new store, or the error *)
FlushUpdate(orig, obj) ==
  LET cols == ChangedColumns(orig, obj)
      hit == UpdateTarget(store, obj)
  IN IF cols = {} THEN [err |-> None, store |-> store]
     ELSE IF hit = {} THEN [err |-> "StaleDataError", store |-> store]
     ELSE [err |-> None,
           store |-> (store \ hit) \cup {ApplyUpdate(r, obj, cols) : r \in hit}]

(* lines 100-104: the found row takes the grant's access token, refresh token and expiry *)
OverwriteExisting(existing, ut) ==
  [existing EXCEPT !.at = ut.at, !.rt = ut.rt, !.exp = ut.exp]

CreateUserTokenSelect(p) ==
  /\ proc[p].pc = "upsert_select"
  /\ \E o \in StorageOutcomes :
       LET pr == proc[p]
           found == {r \in store : SameTriple(r, pr.ut)}
       IN proc' = [proc EXCEPT ![p] =
            IF o = "unavailable"
            THEN Finish(pr, LeaveCreateUserToken(pr, CreateUserTokenExcept(Raised("OperationalError"))))
            ELSE IF Cardinality(found) > 1
            THEN Finish(pr, LeaveCreateUserToken(pr, CreateUserTokenExcept(Raised("MultipleResultsFound"))))
            ELSE IF found # {}
            THEN LET existing == SessionObject(pr, CHOOSE r \in found : TRUE)
                 IN [pr EXCEPT !.pc = "upsert_commit", !.isNew = FALSE,
                               !.orig = existing,
                               !.obj = OverwriteExisting(existing, pr.ut)]
            ELSE [pr EXCEPT !.pc = "upsert_commit", !.isNew = TRUE, !.obj = pr.ut]]
  /\ UNCHANGED <<store, now, minted, nextId, env>>

(* get_tokens_by_user_id lines 192-197: the result of refresh_facebook_token
   replaces the list, and append is then called on the model object *)
AfterRefreshFacebookToken(pr, tok) ==
  Finish([pr EXCEPT !.renewed = @ \cup {tok.id}],
         GetTokensExcept(Raised("AttributeError")))

(* create_user_token returned db_token *)
AfterCreateUserToken(pr, tok) ==
  IF pr.op = "ingest"
  THEN Finish([pr EXCEPT !.obj = tok], Returned(<<tok>>))
  ELSE AfterRefreshFacebookToken([pr EXCEPT !.obj = tok], tok)

CreateUserTokenCommit(p) ==
  /\ proc[p].pc = "upsert_commit"
  /\ \E o \in StorageOutcomes :
       LET pr == proc[p]
           fail(e) == Finish(pr, LeaveCreateUserToken(pr, CreateUserTokenExcept(Raised(e))))
       IN IF o = "unavailable"
          THEN /\ proc' = [proc EXCEPT ![p] = fail("OperationalError")]
               /\ UNCHANGED <<store, nextId, env>>
          ELSE IF pr.isNew
          THEN IF UniqueViolation(store, pr.obj)
               THEN /\ proc' = [proc EXCEPT ![p] = fail("IntegrityError")]
                    /\ UNCHANGED <<store, nextId, env>>
               ELSE LET row == [pr.obj EXCEPT !.id = nextId, !.created = now]
                    IN /\ store' = store \cup {row}
                       /\ nextId' = nextId + 1
                       /\ proc' = [proc EXCEPT ![p] = AfterCreateUserToken(pr, row)]
          ELSE LET w == FlushUpdate(pr.orig, pr.obj)
               IN IF w.err # None
                  THEN /\ proc' = [proc EXCEPT ![p] = fail(w.err)]
                       /\ UNCHANGED <<store, nextId, env>>
                  ELSE /\ store' = w.store
                       /\ proc' = [proc EXCEPT ![p] = AfterCreateUserToken(pr, pr.obj)]
                       /\ UNCHANGED nextId
  /\ UNCHANGED <<now, minted, env>>

----------------------------------------------------------------------------
(* get_tokens_by_user_id *)

MatchesFilter_IgnoresExternalId(r, u, plat, x) ==
  /\ r.user = u
  /\ (plat # None => r.platform = plat)

MatchesFilter(r, u, plat, x) ==
  /\ r.user = u
  /\ (plat # None => r.platform = plat)
  /\ (x # None => r.ext = x)

NoTokens_Unchecked(tokens) == FALSE

NoTokens(tokens) == Len(tokens) = 0

YoutubeExpired_Strict(tok, t) == t > tok.exp

YoutubeExpired(tok, t) == t >= tok.exp

FacebookExpiringSoon(tok, t) == ((tok.exp - t) \div SecondsPerDay) <= GraceDays

(* the loop goes on to the next token, or returns the list *)
Advance(pr) ==
  IF pr.idx + 1 > Len(pr.tokens)
  THEN Finish([pr EXCEPT !.idx = @ + 1], Returned(pr.refreshed))
  ELSE [pr EXCEPT !.idx = @ + 1, !.pc = "get_loop"]

GetTokensSelect(p) ==
  /\ proc[p].pc = "get_select"
  /\ \E o \in StorageOutcomes,
        tokens \in Orderings({r \in store : MatchesFilter(r, proc[p].user, proc[p].platform, proc[p].ext)}) :
       LET pr == proc[p]
       IN proc' = [proc EXCEPT ![p] =
            IF o = "unavailable"
            THEN Finish(pr, GetTokensExcept(Raised("OperationalError")))
            ELSE IF NoTokens(tokens)
            THEN Finish(pr, GetTokensExcept(
                   HTTPException(400, "No tokens found", "No tokens found")))
            ELSE Advance([pr EXCEPT !.tokens = tokens, !.idx = 0])]
  /\ UNCHANGED <<store, now, minted, nextId, env>>

GetTokensLoop(p) ==
  /\ proc[p].pc = "get_loop"
  /\ LET pr == proc[p]
         tok == pr.tokens[pr.idx]
     IN proc' = [proc EXCEPT ![p] =
          IF tok.platform = "youtube" /\ YoutubeExpired(tok, now)
          THEN [pr EXCEPT !.pc = "yt_refresh_http", !.tnow = now,
                          !.calls = Append(@, [kind |-> "yt_refresh", id |-> tok.id])]
          ELSE IF tok.platform = "facebook" /\ FacebookExpiringSoon(tok, now)
          THEN [pr EXCEPT !.pc = "fb_upgrade_http", !.tnow = now, !.short = tok.at,
                          !.calls = Append(@, [kind |-> "fb_upgrade", id |-> tok.id])]
          ELSE Advance([pr EXCEPT !.tnow = now, !.refreshed = Append(@, tok)])]
  /\ UNCHANGED <<store, now, minted, nextId, env>>

----------------------------------------------------------------------------
(* refresh_youtube_token *)

YoutubeRefreshResponses ==
  {[NoResp EXCEPT !.kind = "ok", !.rt = i, !.ein = e] :
       i \in {Null, 1}, e \in YoutubeExpiresIn \cup {Absent}}
  \cup {[NoResp EXCEPT !.kind = k] :
       k \in Faults({"network_error", "non_200", "no_access_token"})}

RefreshTokenAfter_Overwrite(old, included, new) == IF included THEN new ELSE Null

(* lines 250-251: the refresh token is replaced only when the response has one *)
RefreshTokenAfter(old, included, new) == IF included THEN new ELSE old

RenewedExpiry_NoDefault(t, ein) == t + (IF ein = Absent THEN 0 ELSE ein)

(* lines 253-254: expires_at is now plus expires_in, one hour when the field is absent *)
RenewedExpiry(t, ein) == t + (IF ein = Absent THEN DefaultYoutubeExpiresIn ELSE ein)

RefreshYoutubeTokenResponse(p) ==
  /\ proc[p].pc = "yt_refresh_http"
  /\ \E r \in YoutubeRefreshResponses :
       LET pr == proc[p]
           tok == pr.tokens[pr.idx]
           fail(e) == Finish(pr, GetTokensExcept(RefreshYoutubeExcept(e)))
       IN
       CASE r.kind = "network_error" ->
              /\ proc' = [proc EXCEPT ![p] = fail(Raised("RequestError"))]
              /\ UNCHANGED minted
         [] r.kind = "non_200" ->
              /\ proc' = [proc EXCEPT ![p] = fail(
                   HTTPException(400, "Failed to refresh YouTube token",
                                 "Failed to refresh YouTube token"))]
              /\ UNCHANGED minted
         [] r.kind = "no_access_token" ->
              /\ proc' = [proc EXCEPT ![p] = fail(Raised("KeyError"))]
              /\ UNCHANGED minted
         [] OTHER ->
              /\ minted < env.maxMint
              /\ minted' = minted + 1
              /\ LET new == [tok EXCEPT
                       !.at = minted + 1,
                       !.rt = RefreshTokenAfter(tok.rt, r.rt # Null, minted + 1),
                       !.exp = RenewedExpiry(now, r.ein)]
                 IN proc' = [proc EXCEPT ![p] =
                      [pr EXCEPT !.pc = "yt_commit", !.orig = tok, !.obj = new,
                                 !.tokens = [@ EXCEPT ![pr.idx] = new],
                                 !.resp = [r EXCEPT !.at = minted + 1,
                                             !.rt = IF r.rt # Null THEN minted + 1 ELSE Null]]]
  /\ UNCHANGED <<store, now, nextId, env>>

RefreshYoutubeTokenCommit(p) ==
  /\ proc[p].pc = "yt_commit"
  /\ \E o \in StorageOutcomes :
       LET pr == proc[p]
           fail(e) == Finish(pr, GetTokensExcept(RefreshYoutubeExcept(Raised(e))))
           w == FlushUpdate(pr.orig, pr.obj)
       IN IF o = "unavailable"
          THEN /\ proc' = [proc EXCEPT ![p] = fail("OperationalError")]
               /\ UNCHANGED store
          ELSE IF w.err # None
          THEN /\ proc' = [proc EXCEPT ![p] = fail(w.err)]
               /\ UNCHANGED store
          ELSE /\ store' = w.store
               /\ proc' = [proc EXCEPT ![p] =
                    Advance([pr EXCEPT !.refreshed = Append(@, pr.obj),
                                       !.renewed = @ \cup {pr.obj.id}])]
  /\ UNCHANGED <<now, minted, nextId, env>>

----------------------------------------------------------------------------
(* delete_users_all_tokens: adapter and service *)

DeleteWhere_YoutubeOnly(r, u) == r.user = u /\ r.platform = "youtube"

DeleteWhere(r, u) == r.user = u

DeleteUsersAllTokensExcept(e) ==
  IF e.exc = "HTTPException" THEN e
  ELSE HTTPException(500, "Server error", e.origin)

DeleteUsersAllTokens(p) ==
  /\ proc[p].pc = "delete"
  /\ \E o \in StorageOutcomes :
       LET pr == proc[p]
           gone == {r \in store : DeleteWhere(r, pr.user)}
       IN IF o = "unavailable"
          THEN /\ proc' = [proc EXCEPT ![p] =
                    Finish(pr, DeleteUsersAllTokensExcept(Raised("OperationalError")))]
               /\ UNCHANGED store
          ELSE /\ store' = store \ gone
               /\ proc' = [proc EXCEPT ![p] =
                    Finish([pr EXCEPT !.deleted = Cardinality(gone)], Returned(<<>>))]
  /\ UNCHANGED <<now, minted, nextId, env>>

----------------------------------------------------------------------------
(* One step of a request's worker *)
Step(p) ==
  \/ StartYoutubeIngest(p)
  \/ StartFacebookIngest(p)
  \/ StartGet(p)
  \/ StartRevoke(p)
  \/ Return(p)
  \/ RequestYoutubeTokensResponse(p)
  \/ RequestFacebookTokensResponse(p)
  \/ UpgradeToLongLivedResponse(p)
  \/ GetFacebookUserInfoResponse(p)
  \/ CreateUserTokenSelect(p)
  \/ CreateUserTokenCommit(p)
  \/ GetTokensSelect(p)
  \/ GetTokensLoop(p)
  \/ RefreshYoutubeTokenResponse(p)
  \/ RefreshYoutubeTokenCommit(p)
  \/ DeleteUsersAllTokens(p)

Next == Tick \/ \E p \in Procs : Step(p)

Spec == Init /\ [][Next]_vars

SpecConc == InitConc /\ [][Next]_vars

SpecRenew == InitRenew /\ [][Next]_vars

SpecRace == InitRace /\ [][Next]_vars

SpecFilter == InitFilter /\ [][Next]_vars

SpecFrame == InitFrame /\ [][Next]_vars

----------------------------------------------------------------------------
(* Properties *)

TripleRows(S, u, plat, x) ==
  {r \in S : r.user = u /\ r.platform = plat /\ r.ext = x}

Stepped(p) == proc'[p] # proc[p]

(* the list the call holds after the step: the one it returned, or the one it is building *)
ListAfter(p) ==
  IF proc'[p].pc = "done" THEN proc'[p].result.value ELSE proc'[p].refreshed

IngestCommitted(p) ==
  /\ proc[p].pc = "upsert_commit"
  /\ proc[p].op = "ingest"
  /\ proc'[p].pc = "done"
  /\ proc'[p].result.status = "ok"

(* C1: after a successful ingest_grant the store holds exactly one record for the
   (user, platform, external account id) the grant resolved to, and its access token,
   refresh token and expiry are those of that ingest; requests run one after another *)
C1_IngestLeavesOneRecord ==
  [][\A p \in Procs :
       IngestCommitted(p) =>
         LET ut == proc[p].ut
             rows == TripleRows(store', ut.user, ut.platform, ut.ext)
         IN /\ Cardinality(rows) = 1
            /\ \A r \in rows : r.at = ut.at /\ r.rt = ut.rt /\ r.exp = ut.exp]_vars

(* a grant was ingested again for a triple stored at an earlier time *)
C1_Witness ==
  \E p \in Procs :
    /\ proc[p].pc = "done" /\ proc[p].op = "ingest" /\ proc[p].result.status = "ok"
    /\ ~proc[p].isNew
    /\ \E r \in store :
         /\ r.id = proc[p].obj.id /\ r.at = proc[p].obj.at /\ r.exp = proc[p].obj.exp
         /\ r.created < now

(* C2: under every interleaving of concurrent upserts the store never holds two
   records with the same (user, platform, external account id) *)
C2_NoDuplicateTriples ==
  \A r1, r2 \in store :
    (r1.user = r2.user /\ r1.platform = r2.platform /\ r1.ext = r2.ext) => r1 = r2

(* two upserts of one triple both found no record; the second insert was refused *)
C2_Witness ==
  \E p \in Procs :
    /\ proc[p].pc = "done" /\ proc[p].op = "ingest"
    /\ proc[p].result.origin = "IntegrityError"
    /\ TripleRows(store, proc[p].ut.user, proc[p].ut.platform, proc[p].ut.ext) # {}

ClaimedFresh(tok, t) ==
  IF tok.platform = "youtube" THEN t < tok.exp
  ELSE tok.exp - t > GraceDays * SecondsPerDay

(* C3: get_credentials on a Fresh record (youtube: now < expires_at; facebook: more
   than the 10-day grace window remains) puts that record, with the access token it
   read, in its result, makes no upstream call and leaves the store unchanged *)
C3_FreshReturnedAsIs ==
  [][\A p \in Procs :
       (/\ proc[p].pc = "get_loop"
        /\ Stepped(p)
        /\ ClaimedFresh(proc[p].tokens[proc[p].idx], now))
       => /\ ListAfter(p) = Append(proc[p].refreshed, proc[p].tokens[proc[p].idx])
          /\ proc'[p].calls = proc[p].calls
          /\ store' = store]_vars

CountCalls(cs, kind, id) ==
  Cardinality({i \in 1..Len(cs) : cs[i].kind = kind /\ cs[i].id = id})

(* C4: for a youtube record get_credentials renews if and only if now >= expires_at;
   it then issues exactly one refresh_token-grant call for the record, and after a
   successful response the credential it hands back expires strictly after now *)
C4_YoutubeRenewal ==
  [][\A p \in Procs :
       /\ (/\ proc[p].pc = "get_loop" /\ Stepped(p)
           /\ proc[p].tokens[proc[p].idx].platform = "youtube")
          => LET tok == proc[p].tokens[proc[p].idx]
             IN /\ (proc'[p].pc = "yt_refresh_http") <=> (now >= tok.exp)
                /\ CountCalls(proc'[p].calls, "yt_refresh", tok.id)
                     = (IF now >= tok.exp THEN 1 ELSE 0)
       /\ (proc[p].pc \in {"yt_refresh_http", "yt_commit"} /\ Stepped(p))
          => proc'[p].calls = proc[p].calls
       /\ (proc[p].pc = "yt_commit" /\ Stepped(p) /\ proc'[p].result.origin = None)
          => /\ ListAfter(p) = Append(proc[p].refreshed, proc[p].obj)
             /\ proc[p].obj.exp > proc[p].tnow
             /\ \E r \in store' : r.id = proc[p].obj.id /\ r.exp = proc[p].obj.exp]_vars

(* a renewal triggered exactly at now = expires_at got its answer *)
C4_Witness ==
  \E p \in Procs :
    /\ proc[p].pc = "yt_commit"
    /\ proc[p].tnow = proc[p].orig.exp
    /\ proc[p].obj.exp > now

(* C5: for a facebook record get_credentials renews if and only if fewer than 10 days
   remain before expires_at *)
C5_FacebookGraceWindow ==
  [][\A p \in Procs :
       (/\ proc[p].pc = "get_loop" /\ Stepped(p)
        /\ proc[p].tokens[proc[p].idx].platform = "facebook")
       => ((proc'[p].pc = "fb_upgrade_http")
             <=> (proc[p].tokens[proc[p].idx].exp - now < GraceDays * SecondsPerDay))]_vars

(* C6: when the renewal of a facebook record went through (upgrade exchange, who-am-I
   call and store write), get_credentials succeeds and its list holds the renewed
   credential *)
C6_FacebookRenewalReturned ==
  \A p \in Procs :
    (/\ proc[p].pc = "done" /\ proc[p].op = "get"
     /\ proc[p].obj.platform = "facebook" /\ proc[p].obj.id \in proc[p].renewed)
    => /\ proc[p].result.status = "ok"
       /\ \E i \in 1..Len(proc[p].result.value) :
            proc[p].result.value[i].at = proc[p].obj.at

(* C7: get_credentials whose filter matches no stored record ends with an error,
   returns no list, makes no upstream call and leaves the store unchanged *)
C7_NoMatchIsAnError ==
  [][\A p \in Procs :
       (/\ proc[p].pc = "get_select" /\ Stepped(p)
        /\ ~ \E r \in store :
               /\ r.user = proc[p].user
               /\ proc[p].platform \in {None, r.platform}
               /\ proc[p].ext \in {None, r.ext})
       => /\ proc'[p].pc = "done"
          /\ proc'[p].result.status = "error"
          /\ proc'[p].result.value = <<>>
          /\ proc'[p].calls = <<>>
          /\ store' = store]_vars

(* a user with a stored record asked for a platform it has no record of *)
C7_Witness ==
  \E p \in Procs :
    /\ proc[p].pc = "done" /\ proc[p].op = "get"
    /\ proc[p].result.origin = "No tokens found"
    /\ proc[p].platform = "facebook"
    /\ \E r \in store : r.user = proc[p].user

(* C8: the error raised for no matching record and the error raised for a failed
   renewal each reach the caller of get_credentials as raised *)
C8_ErrorsReachCallerUnchanged ==
  \A p \in Procs :
    (/\ proc[p].pc = "done" /\ proc[p].op = "get"
     /\ proc[p].result.origin \in {"No tokens found", "Failed to refresh YouTube token"})
    => proc[p].result.detail = proc[p].result.origin

(* C9: after revoke_all(user) completes, with requests run one after another, the
   store holds no record of that user, under any filter *)
C9_RevokeRemovesAll ==
  [][\A p \in Procs :
       (/\ proc[p].pc = "delete" /\ Stepped(p)
        /\ proc'[p].result.status = "ok")
       => /\ ~ \E r \in store' : r.user = proc[p].user
          /\ \A r \in store' : r \in store
          /\ \A r \in store : r.user # proc[p].user => r \in store']_vars

(* a user with records on both platforms was revoked *)
C9_Witness ==
  \E p \in Procs :
    /\ proc[p].pc = "done" /\ proc[p].op = "revoke"
    /\ proc[p].result.status = "ok" /\ proc[p].deleted >= 2
    /\ ~ \E r \in store : r.user = proc[p].user

(* C10: after a successful youtube renewal the stored refresh token is the one stored
   before when the response has no refresh_token (and is not null), and the
   response's refresh_token when it has one *)
C10_RefreshTokenCarryOver ==
  [][\A p \in Procs :
       (proc[p].pc = "yt_commit" /\ Stepped(p) /\ proc'[p].result.origin = None)
       => \E before \in store, after \in store' :
            /\ before.id = proc[p].obj.id /\ after.id = proc[p].obj.id
            /\ IF proc[p].resp.rt = Null
               THEN after.rt = before.rt /\ after.rt # Null
               ELSE after.rt = proc[p].resp.rt]_vars

(* a renewal whose response had no refresh_token was stored *)
C10_Witness ==
  \E p \in Procs :
    /\ proc[p].pc = "done" /\ proc[p].op = "get" /\ proc[p].result.status = "ok"
    /\ proc[p].resp.kind = "ok" /\ proc[p].resp.rt = Null
    /\ proc[p].renewed # {}
    /\ \E r \in store : r.id \in proc[p].renewed /\ r.rt # Null /\ r.at = proc[p].resp.at

RenewalPcs ==
  {"yt_refresh_http", "yt_commit", "fb_upgrade_http", "fb_whoami_http",
   "upsert_select", "upsert_commit"}

RenewalCalls(cs, id) ==
  CountCalls(cs, "yt_refresh", id) + CountCalls(cs, "fb_upgrade", id)

(* the step ends a get_credentials call inside a renewal whose write did not land *)
RenewalFailed(p) ==
  /\ proc[p].op = "get"
  /\ proc[p].pc \in RenewalPcs
  /\ proc'[p].pc = "done"
  /\ proc'[p].renewed = proc[p].renewed

(* C11: when the renewal of a stale record fails (non-2xx answer, missing access_token,
   network error, storage error) get_credentials ends with an error, hands back no
   list, and has made exactly one upstream renewal attempt for that record *)
C11_RenewalFailureIsTerminal ==
  [][\A p \in Procs :
       RenewalFailed(p) =>
         /\ proc'[p].result.status = "error"
         /\ proc'[p].result.value = <<>>
         /\ proc'[p].calls = proc[p].calls
         /\ RenewalCalls(proc'[p].calls, proc[p].tokens[proc[p].idx].id) = 1]_vars

(* the store refused the write of a youtube renewal *)
C11_Witness ==
  \E p \in Procs :
    /\ proc[p].pc = "done" /\ proc[p].op = "get"
    /\ proc[p].result.origin = "OperationalError"
    /\ Len(proc[p].calls) = 1 /\ proc[p].calls[1].kind = "yt_refresh"
    /\ proc[p].renewed = {}

PreWritePcs ==
  {"yt_code_http", "fb_code_http", "fb_upgrade_http", "fb_whoami_http",
   "yt_refresh_http", "upsert_select"}

RowsOf(S, id) == {r \in S : r.id = id}

(* C12: with requests run one after another, an ingest_grant that fails before its
   store write leaves the store as it was when the call began, a renewal that fails
   before its store write leaves its record as it was, and every record written has
   an access token and an expiry *)
C12_NoWriteBeforeFailure ==
  [][\A p \in Procs :
       /\ (proc[p].pc \in PreWritePcs /\ proc'[p].pc = "done" /\ proc[p].op = "ingest")
          => store' = proc[p].snap
       /\ (proc[p].pc \in PreWritePcs /\ proc'[p].pc = "done" /\ proc[p].op = "get")
          => LET id == proc[p].tokens[proc[p].idx].id
             IN RowsOf(store', id) = RowsOf(proc[p].snap, id)
       /\ (Stepped(p) /\ store' # store)
          => \A r \in store' \ store : r.at > Null /\ r.exp > 0]_vars

(* a facebook grant failed at the who-am-I call while the user had a facebook record *)
C12_Witness ==
  \E p \in Procs :
    /\ proc[p].pc = "done" /\ proc[p].op = "ingest" /\ proc[p].platform = "facebook"
    /\ proc[p].result.origin = "upstream body"
    /\ proc[p].xtoken > 0
    /\ \E r \in store : r.user = proc[p].user /\ r.platform = "facebook"
    /\ store = proc[p].snap

(* C13: with requests run one after another, a get_credentials call that ends in an
   error leaves the store as it was when the call began (the error that follows a
   stored facebook renewal, C6, set aside) *)
C13_GetIsAllOrNothing ==
  \A p \in Procs :
    (/\ proc[p].pc = "done" /\ proc[p].op = "get"
     /\ proc[p].result.status = "error"
     /\ proc[p].result.origin # "AttributeError")
    => store = proc[p].snap

(* both calls are over, and each stored a youtube renewal of record id *)
BothRenewed(p, q, id) ==
  /\ p # q
  /\ \A w \in {p, q} :
       /\ proc[w].pc = "done" /\ proc[w].op = "get"
       /\ id \in proc[w].renewed
       /\ proc[w].obj.id = id /\ proc[w].obj.platform = "youtube"

(* C14: when two overlapping get_credentials calls both renewed the same stale youtube
   record, both ended without error, one record remains for the triple, and its
   access token, refresh token and expiry are those of one of the two renewals *)
C14_ConcurrentRenewalsDoNotMix ==
  \A p, q \in Procs : \A r \in store :
    BothRenewed(p, q, r.id) =>
      /\ proc[p].result.status = "ok" /\ proc[q].result.status = "ok"
      /\ Cardinality(TripleRows(store, r.user, r.platform, r.ext)) = 1
      /\ \E w \in {p, q} :
           /\ r.at = proc[w].obj.at
           /\ r.rt = proc[w].obj.rt
           /\ r.exp = proc[w].obj.exp

(* C15: an ingest_grant that found no record for its triple completes successfully,
   whatever another upsert of the same triple does meanwhile, and its values are
   stored unless a later writer replaced them *)
C15_ConcurrentUpsertsSucceed ==
  \A p \in Procs :
    (proc[p].pc = "done" /\ proc[p].op = "ingest" /\ proc[p].isNew)
    => /\ proc[p].result.status = "ok"
       /\ proc[p].result.origin # "IntegrityError"

MissingAccessToken ==
  {"Failed to get access token", "Failed to get short-lived Facebook token",
   "Failed to get long-lived Facebook token"}

(* C16: when a token endpoint's answer has no access_token (youtube code exchange,
   facebook code exchange, facebook upgrade exchange) ingest_grant fails with a 4xx
   error, and that error is what the caller of the endpoint is given *)
C16_MissingAccessTokenIsClientError ==
  \A p \in Procs :
    (/\ proc[p].pc = "done" /\ proc[p].op = "ingest"
     /\ proc[p].result.origin \in MissingAccessToken)
    => /\ proc[p].result.code \in 400..499
       /\ proc[p].result.detail = proc[p].result.origin
       /\ proc[p].seen = proc[p].result

(* C17: when the who-am-I endpoint answers with a non-2xx status, the operation fails
   with an error carrying the upstream status and body, and no record is written *)
C17_IdentityErrorCarriesUpstream ==
  \A p \in Procs :
    (proc[p].pc = "done" /\ proc[p].result.origin = "upstream body")
    => /\ proc[p].result.code = 401
       /\ proc[p].result.detail = "upstream body"
       /\ store = proc[p].snap

(* C18: no step of ingest_grant or get_credentials removes a stored triple; a triple
   leaves the store only in a revoke_all step, which leaves no record of that user *)
C18_OnlyRevokeRemoves ==
  [][\A r \in store :
       (TripleRows(store', r.user, r.platform, r.ext) = {})
       => \E p \in Procs :
            /\ proc[p].pc = "delete" /\ Stepped(p)
            /\ proc[p].user = r.user
            /\ ~ \E r2 \in store' : r2.user = r.user]_vars

(* a user's youtube and facebook records were revoked together *)
C18_Witness ==
  \E p \in Procs :
    /\ proc[p].pc = "done" /\ proc[p].op = "revoke" /\ proc[p].deleted = 2
    /\ proc[p].result.status = "ok"
    /\ store = {}

(* C19: created_at is set when the record is inserted and no later ingest_grant or
   renewal changes it, nor the record's user, platform or external account id *)
C19_CreatedAtImmutable ==
  [][/\ \A r \in store, r2 \in store' :
          r.id = r2.id => /\ r2.created = r.created
                          /\ r2.user = r.user
                          /\ r2.platform = r.platform
                          /\ r2.ext = r.ext
     /\ \A r2 \in store' :
          (~ \E r \in store : r.id = r2.id) => r2.created = now]_vars

(* a record inserted at an earlier time was renewed *)
C19_Witness ==
  \E p \in Procs : \E r \in store :
    /\ proc[p].pc = "done" /\ proc[p].op = "get" /\ proc[p].result.status = "ok"
    /\ r.id \in proc[p].renewed
    /\ r.at = proc[p].obj.at
    /\ r.created < now

FacebookIngestOrder == <<"fb_code", "fb_upgrade", "fb_whoami">>

CallKinds(cs) == [i \in 1..Len(cs) |-> cs[i].kind]

(* C20: a facebook ingest_grant calls the code exchange, the upgrade exchange and the
   who-am-I endpoint in that order, writes to the store only after all three, and
   the access token it stores is the upgrade exchange's, not the short-lived one *)
C20_FacebookIngestOrder ==
  [][\A p \in Procs :
       (proc[p].op = "ingest" /\ proc[p].platform = "facebook")
       => /\ Len(proc'[p].calls) <= 3
          /\ CallKinds(proc'[p].calls) = SubSeq(FacebookIngestOrder, 1, Len(proc'[p].calls))
          /\ (Stepped(p) /\ store' # store)
             => /\ CallKinds(proc[p].calls) = FacebookIngestOrder
                /\ \A r \in store' \ store :
                     /\ r.at = proc[p].xtoken
                     /\ r.at # proc[p].short
                     /\ r.user = proc[p].user /\ r.platform = "facebook"]_vars

(* a facebook grant was stored after its three upstream calls *)
C20_Witness ==
  \E p \in Procs :
    /\ proc[p].pc = "done" /\ proc[p].op = "ingest" /\ proc[p].platform = "facebook"
    /\ proc[p].result.status = "ok"
    /\ Len(proc[p].calls) = 3
    /\ \E r \in store : r.id = proc[p].obj.id /\ r.at = proc[p].xtoken

Elements(seq) == {seq[i] : i \in 1..Len(seq)}

(* C21: with requests run one after another, a successful get_credentials(user,
   platform?, external id?) returns exactly the stored records of the user that
   match every supplied filter, one entry per record *)
C21_ReturnsExactlyTheMatches ==
  \A p \in Procs :
    (proc[p].pc = "done" /\ proc[p].op = "get" /\ proc[p].result.status = "ok")
    => LET want == {r \in store :
                      /\ r.user = proc[p].user
                      /\ proc[p].platform \in {None, r.platform}
                      /\ proc[p].ext \in {None, r.ext}}
       IN /\ Elements(proc[p].result.value) = want
          /\ Len(proc[p].result.value) = Cardinality(want)

(* a successful get that named an external id while the user has another account *)
C21_Witness ==
  \E p \in Procs :
    /\ proc[p].pc = "done" /\ proc[p].op = "get" /\ proc[p].result.status = "ok"
    /\ proc[p].ext = "a"
    /\ \E r \in store : r.user = proc[p].user /\ r.ext = "b"

(* C22: a successful YouTube renewal stores the access token of the refresh
   response and an expiry of the time of renewal plus the response's expires_in
   seconds, or plus one hour when the field is absent; the stored record is the
   one the ingestion upsert would have written over the same row with the same
   values *)
C22_YoutubeRenewalStores ==
  [][\A p \in Procs :
       /\ (proc[p].pc = "yt_refresh_http" /\ proc'[p].pc = "yt_commit")
          => /\ proc'[p].obj.at = proc'[p].resp.at
             /\ proc'[p].obj.exp =
                  now + (IF proc'[p].resp.ein = Absent
                         THEN DefaultYoutubeExpiresIn ELSE proc'[p].resp.ein)
       /\ (proc[p].pc = "yt_commit" /\ Stepped(p) /\ store' # store)
          => \E before \in RowsOf(store, proc[p].obj.id) :
               /\ store' = (store \ {before})
                             \cup {OverwriteExisting(before, proc[p].obj)}
               /\ \A r \in RowsOf(store', before.id) : r.at = proc[p].resp.at]_vars

(* a renewal whose response had no expires_in was committed and the call succeeded *)
C22_Witness ==
  \E p \in Procs :
    /\ proc[p].pc = "done" /\ proc[p].op = "get" /\ proc[p].result.status = "ok"
    /\ proc[p].resp.kind = "ok" /\ proc[p].resp.ein = Absent
    /\ proc[p].renewed # {}
    /\ \E r \in store :
         /\ r.id \in proc[p].renewed
         /\ r.platform = "youtube"
         /\ r.at = proc[p].resp.at
         /\ r.exp > now

(* C23: an ingest whose token response provides no refresh token still succeeds
   (re-ingesting a stored triple overwrites access token and expiry in place and
   the refresh token only when the grant provides one) *)
C23_IngestWithoutRefreshTokenSucceeds ==
  \A p \in Procs :
    (/\ proc[p].pc = "done" /\ proc[p].op = "ingest"
     /\ proc[p].resp.kind = "no_refresh_token")
    => proc[p].result.status = "ok"

Changed == (store \ store') \cup (store' \ store)

(* the triple an ingest was called with, the record a get is renewing *)
Target(pr) == IF pr.op = "ingest" THEN pr.ut ELSE pr.tokens[pr.idx]

(* C24: operations are framed by triple and by user, also when requests overlap:
   a step of an ingest or of a renewal for user u changes at most one record,
   which belongs to u and has the triple ingested or renewed; revoke_all(u) only
   removes records of u; every other record is left unchanged *)
C24_FramedByTripleAndUser ==
  [][\A p \in Procs :
       (Stepped(p) /\ store' # store)
       => IF proc[p].op = "revoke"
          THEN /\ store' \subseteq store
               /\ \A r \in Changed : r.user = proc[p].user
          ELSE /\ Cardinality(store \ store') <= 1
               /\ Cardinality(store' \ store) <= 1
               /\ \A r, r2 \in Changed : r.id = r2.id
               /\ \A r \in Changed :
                    /\ r.user = proc[p].user
                    /\ r.platform = Target(proc[p]).platform
                    /\ r.ext = Target(proc[p]).ext]_vars

(* a stored record was overwritten in place while a record of another user was
   stored and a request of that user was in flight *)
C24_Witness ==
  \E p, q \in Procs :
    /\ proc[p].pc = "done" /\ proc[p].result.status = "ok"
    /\ proc[p].op = "ingest" /\ ~ proc[p].isNew
    /\ proc[q].pc \notin {"idle", "done"}
    /\ proc[q].user # proc[p].user
    /\ \E r, r2 \in store :
         /\ r.id = proc[p].obj.id /\ r.at = proc[p].obj.at
         /\ r2.user = proc[q].user

(* the time at which get_tokens_by_user_id examined the record it is adding:
   never before the call began *)
ExaminedAt(p) == IF proc[p].pc = "get_loop" THEN now ELSE proc[p].tnow

(* C25: every credential a get_credentials call adds to its result, as found or
   after renewal, has expires_at strictly later than the time the call examined
   it, hence later than the time of the call: an expired credential is renewed
   first or the call fails, it is never served *)
C25_NeverServesExpired ==
  [][\A p \in Procs :
       (/\ proc[p].op = "get" /\ Stepped(p)
        /\ proc'[p].result.status # "error"
        /\ Len(ListAfter(p)) > Len(proc[p].refreshed))
       => /\ Len(ListAfter(p)) = Len(proc[p].refreshed) + 1
          /\ ListAfter(p)[Len(ListAfter(p))].exp > ExaminedAt(p)
          /\ \A i \in 1..Len(proc[p].refreshed) :
               ListAfter(p)[i] = proc[p].refreshed[i]]_vars

(* a call returned a record it found fresh together with one it renewed *)
C25_Witness ==
  \E p \in Procs :
    /\ proc[p].pc = "done" /\ proc[p].op = "get" /\ proc[p].result.status = "ok"
    /\ Len(proc[p].result.value) = 2
    /\ \E i, j \in 1..2 :
         /\ proc[p].result.value[i].id \in proc[p].renewed
         /\ proc[p].result.value[j].id \notin proc[p].renewed
    /\ \A i \in 1..2 : proc[p].result.value[i].exp > now

(* C26: in every reachable state every stored facebook record has a null refresh
   token and every stored youtube record has a non-null refresh token *)
C26_RefreshTokenByPlatform ==
  \A r \in store :
    /\ r.platform = "facebook" => r.rt = Null
    /\ r.platform = "youtube" => r.rt # Null

(* a facebook record is stored next to a youtube record that a renewal without
   a refresh token in its response has rewritten *)
C26_Witness ==
  \E r, r2 \in store :
    /\ r.platform = "facebook" /\ r.rt = Null
    /\ r2.platform = "youtube" /\ r2.at # r2.rt /\ r2.rt # Null

HasRecords(S, u) == \E r \in S : r.user = u

RevokeCompleted(u) ==
  \E q \in Procs :
    /\ proc[q].pc = "done" /\ proc[q].op = "revoke"
    /\ proc[q].user = u /\ proc[q].result.status = "ok"

(* C27: once revoke_all(user) has completed the user has no stored record until
   a later ingest_grant: no step of a get_credentials call, in particular of a
   renewal begun before the revoke, re-creates a record for that user *)
C27_RenewalDoesNotResurrect ==
  [][\A p \in Procs :
       (/\ proc[p].op = "get" /\ Stepped(p)
        /\ RevokeCompleted(proc[p].user)
        /\ ~ HasRecords(store, proc[p].user))
       => ~ HasRecords(store', proc[p].user)]_vars

Triples(S) == {<<r.user, r.platform, r.ext>> : r \in S}

(* C28: get_credentials never changes the set of stored triples: a renewal
   writes to the record it read as stale and never inserts a record *)
C28_GetKeepsTheTriples ==
  [][\A p \in Procs :
       (proc[p].op = "get" /\ Stepped(p))
       => /\ Triples(store') = Triples(store)
          /\ Cardinality(store') = Cardinality(store)]_vars

(* the freshness test get_tokens_by_user_id applies to a record at time t *)
Stale(r, t) ==
  IF r.platform = "youtube" THEN YoutubeExpired(r, t) ELSE FacebookExpiringSoon(r, t)

(* C29: after a renewal the renewed record is Fresh: with expires_at later than
   now (youtube) or more than the grace window remaining (facebook), a
   get_credentials call at the same clock value would not renew it again *)
C29_RenewedRecordIsFresh ==
  \A p \in Procs : \A r \in store :
    (/\ proc[p].pc = "done" /\ proc[p].op = "get"
     /\ r.id \in proc[p].renewed /\ r.at = proc[p].obj.at
     /\ IF r.platform = "youtube" THEN r.exp > now
        ELSE r.exp - now > GraceDays * SecondsPerDay)
    => ~ Stale(r, now)

StaleRows(S, u, t) == {r \in S : r.user = u /\ Stale(r, t)}

(* the renewal being committed rewrites the record it read, and the provider's
   expiry leaves more than the grace window (facebook) or is in the future *)
LongLivedRenewal(p) ==
  /\ proc[p].pc \in {"upsert_commit", "yt_commit"}
  /\ proc[p].obj.id = proc[p].tokens[proc[p].idx].id
  /\ IF proc[p].obj.platform = "youtube" THEN proc[p].obj.exp > now
     ELSE proc[p].obj.exp - now > GraceDays * SecondsPerDay

(* C30: with the provider answering successfully with a long-lived expiry and
   the store available, repeated get_credentials calls eventually succeed: every
   committed renewal leaves the user with fewer records that the next call would
   have to renew, so the calls cannot fail forever *)
C30_RenewalsRunOut ==
  [][\A p \in Procs :
       (/\ proc[p].op = "get" /\ Stepped(p) /\ store' # store
        /\ LongLivedRenewal(p))
       => Cardinality(StaleRows(store', proc[p].user, now))
            < Cardinality(StaleRows(store, proc[p].user, now))]_vars

====
